---- MODULE Spec2Model ----
(***************************************************************************)
(* Model of voice_prompt_cleanup_gui.py: the MainWindow job queue          *)
(* (files_to_process and its controls), the ProcessingWorker thread that   *)
(* invokes the external script once per queued file, and the queued Qt     *)
(* signals that carry the worker's notifications back to the UI thread.    *)
(*                                                                         *)
(* The UI thread runs one handler at a time; a click reaches its handler   *)
(* only when the button is enabled and no modal dialog is open.  The       *)
(* worker thread's steps interleave freely with the UI thread's handlers.  *)
(* The file system, the external script and the output-folder check box   *)
(* (which the user can flip at any time and which only start_processing    *)
(* reads) are the environment: what they answer is an input of the step    *)
(* that asks.                                                              *)
(***************************************************************************)
EXTENDS Integers, Sequences, FiniteSets, TLC

\* ---------------------------------------------------------------- bounds
NumPaths == 2       \* size of the universe of input paths
MaxAdd == 1         \* longest list handed to add_files in one call
MaxWorkers == 2     \* ProcessingWorker objects that can be alive at once

\* ------------------------------------------------------------- constants
TIMEOUT == 600      \* subprocess.run(..., timeout=600)

None == "None"
Null == 0           \* MainWindow.worker when it refers to no worker
InDir == "in"       \* the directory the input files live in
OutDir == "out"     \* the text of output_folder_edit

\* ------------------------------------------------------------------ paths
\* A pathlib.Path: parent directory, stem (a sequence of name pieces) and
\* suffix.  The universe is a.wav, a_processed.mp3, a_processed_processed.mp3, ...
MkPath(k) ==
    [parent |-> InDir,
     stem   |-> <<"a">> \o [j \in 1..(k - 1) |-> "_processed"],
     suffix |-> IF k = 1 THEN ".wav" ELSE ".mp3"]

Paths == {MkPath(k) : k \in 1..NumPaths}

\* Path.name: the path without its directory
Name(p) == [parent |-> "", stem |-> p.stem, suffix |-> p.suffix]
NoPath == [parent |-> "", stem |-> <<>>, suffix |-> ""]

RECURSIVE SeqsUpTo(_, _)
SeqsUpTo(S, n) ==
    IF n = 0 THEN {<<>>}
    ELSE LET shorter == SeqsUpTo(S, n - 1)
         IN  shorter \cup {Append(s, e) : s \in {t \in shorter : Len(t) = n - 1}, e \in S}

\* the lists a file dialog, a folder glob or a drop can hand over
FileLists == SeqsUpTo(Paths, MaxAdd)

Range(s) == {s[j] : j \in 1..Len(s)}

\* ------------------------------------------------- external process results
\* What one call of the script does: fault is the description of an exception
\* raised by the invocation itself ("" when none), elapsed the seconds it
\* needs, returncode/stderr/stdout what it ends with when left to finish.
Outcomes ==
    { [fault |-> "", elapsed |-> 1, returncode |-> 0, stderr |-> "", stdout |-> "done"],
      [fault |-> "", elapsed |-> 1, returncode |-> 1, stderr |-> "bad codec", stdout |-> ""],
      [fault |-> "", elapsed |-> 1, returncode |-> 1, stderr |-> "", stdout |-> ""],
      [fault |-> "", elapsed |-> TIMEOUT + 1, returncode |-> 0, stderr |-> "", stdout |-> "done"],
      [fault |-> "Permission denied", elapsed |-> 0, returncode |-> 0, stderr |-> "", stdout |-> ""] }

\* ---------------------------------------------------------------- signals
Progress(current, total, message) ==
    [sig |-> "progress", current |-> current, total |-> total, message |-> message]
FileComplete(filename, success, message) ==
    [sig |-> "file_complete", filename |-> filename, success |-> success, message |-> message]
AllComplete(successful, failed) ==
    [sig |-> "all_complete", successful |-> successful, failed |-> failed]
\* a log line: which line of run() wrote it, its text, and the path it names
LogMessage(kind, text, path) ==
    [sig |-> "log_message", kind |-> kind, text |-> text, path |-> path]

\* ------------------------------------------------------------------ state
VARIABLES
    files_to_process,      \* MainWindow.files_to_process
    file_list,             \* the paths held by the items of MainWindow.file_list
    worker,                \* MainWindow.worker: Null or the id of a worker
    process_btn,           \* enabled flags of the controls
    cancel_btn,
    add_files_btn,
    add_folder_btn,
    clear_btn,
    remove_selected_btn,
    progress_bar,          \* [value, maximum]
    log_output,            \* number of entries appended to the log view
    dialog,                \* the modal message box that is open, or None
    workers,               \* the ProcessingWorker objects, by id
    events                 \* queued signals not yet delivered to the UI thread

buttons == <<process_btn, cancel_btn, add_files_btn, add_folder_btn, clear_btn, remove_selected_btn>>
queue == <<files_to_process, file_list>>
display == <<progress_bar, log_output>>
vars == <<files_to_process, file_list, worker, process_btn, cancel_btn, add_files_btn,
          add_folder_btn, clear_btn, remove_selected_btn,
          progress_bar, log_output, dialog, workers, events>>

WorkerIds == 1..MaxWorkers

\* A worker object that does not exist (never created, or dropped after its
\* all_complete was handled).
NoWorker ==
    [files |-> <<>>, output_folder |-> None, _cancelled |-> FALSE, pc |-> "none",
     i |-> 0, successful |-> 0, failed |-> 0,
     emitted |-> <<>>, invoked |-> <<>>, results |-> <<>>]

\* the constructor leaving the cancel flag set
ProcessingWorker_FlagSet(files, output_folder) ==
    [files |-> files, output_folder |-> output_folder, _cancelled |-> TRUE, pc |-> "loop",
     i |-> 0, successful |-> 0, failed |-> 0,
     emitted |-> <<>>, invoked |-> <<>>, results |-> <<>>]

\* ProcessingWorker.__init__ followed by start(): run() is about to enter its loop.
\* emitted, invoked and results record what the thread has done so far: the
\* signals it emitted, the argument lists it ran, what each call ended with.
ProcessingWorker(files, output_folder) ==
    [files |-> files, output_folder |-> output_folder, _cancelled |-> FALSE, pc |-> "loop",
     i |-> 0, successful |-> 0, failed |-> 0,
     emitted |-> <<>>, invoked |-> <<>>, results |-> <<>>]

Init ==
    /\ files_to_process = <<>>
    /\ file_list = <<>>
    /\ worker = Null
    /\ process_btn = FALSE
    /\ cancel_btn = FALSE
    /\ add_files_btn = TRUE
    /\ add_folder_btn = TRUE
    /\ clear_btn = TRUE
    /\ remove_selected_btn = TRUE
    /\ progress_bar = [value |-> 0, maximum |-> 100]
    /\ log_output = 0
    /\ dialog = None
    /\ workers = [w \in WorkerIds |-> NoWorker]
    /\ events = <<>>

\* ------------------------------------------------------------ job queue
\* update_ui_state without its "self.worker is None" test
update_ui_state_IgnoresWorker(files, wk) == Len(files) > 0

\* update_ui_state without its has_files test
update_ui_state_IgnoresFiles(files, wk) == wk = Null

\* update_ui_state: the enabled flag it gives process_btn
update_ui_state(files, wk) == Len(files) > 0 /\ wk = Null

\* add_files without its "not in self.files_to_process" test
RECURSIVE add_files_NoCheck(_, _)
add_files_NoCheck(list, files) ==
    IF files = <<>> THEN list
    ELSE add_files_NoCheck(Append(list, Head(files)), Tail(files))

\* the effect of add_files on a list: each path not already present is appended
RECURSIVE add_files(_, _)
add_files(list, files) ==
    IF files = <<>> THEN list
    ELSE add_files(IF Head(files) \in Range(list) THEN list ELSE Append(list, Head(files)),
                   Tail(files))

\* MainWindow.add_files as a handler
AddFiles(files) ==
    /\ files_to_process' = add_files(files_to_process, files)
    /\ file_list' = add_files(file_list, files)
    /\ process_btn' = update_ui_state(files_to_process', worker)

\* the guard of every click: the button is enabled and no modal dialog is open
Clickable(btn) == btn /\ dialog = None

BrowseFiles(files) ==
    /\ Clickable(add_files_btn)
    /\ IF files # <<>>
         THEN AddFiles(files)
         ELSE UNCHANGED <<queue, process_btn>>
    /\ UNCHANGED <<worker, cancel_btn, add_files_btn, add_folder_btn, clear_btn,
                   remove_selected_btn, display, dialog, workers, events>>

BrowseFolder(files) ==
    /\ Clickable(add_folder_btn)
    /\ IF files # <<>>
         THEN AddFiles(files) /\ UNCHANGED dialog
         ELSE dialog' = "No Audio Files" /\ UNCHANGED <<queue, process_btn>>
    /\ UNCHANGED <<worker, cancel_btn, add_files_btn, add_folder_btn, clear_btn,
                   remove_selected_btn, display, workers, events>>

\* FileDropListWidget.dropEvent, whose files_dropped signal is connected to add_files
DropEvent(files) ==
    /\ dialog = None
    /\ IF files # <<>>
         THEN AddFiles(files)
         ELSE UNCHANGED <<queue, process_btn>>
    /\ UNCHANGED <<worker, cancel_btn, add_files_btn, add_folder_btn, clear_btn,
                   remove_selected_btn, display, dialog, workers, events>>

ClearFiles ==
    /\ Clickable(clear_btn)
    /\ file_list' = <<>>
    /\ files_to_process' = <<>>
    /\ process_btn' = update_ui_state(files_to_process', worker)
    /\ UNCHANGED <<worker, cancel_btn, add_files_btn, add_folder_btn, clear_btn,
                   remove_selected_btn, display, dialog, workers, events>>

\* list.remove(x): drops the first occurrence of x
RECURSIVE ListRemove(_, _)
ListRemove(list, x) ==
    IF list = <<>> THEN <<>>
    ELSE IF Head(list) = x THEN Tail(list)
    ELSE <<Head(list)>> \o ListRemove(Tail(list), x)

\* remove_selected taking only the first selected item
remove_paths_FirstOnly(list, sel) ==
    IF sel = <<>> THEN list
    ELSE IF Head(sel) \in Range(list) THEN ListRemove(list, Head(sel)) ELSE list

\* the loop of remove_selected over the paths of the selected items
RECURSIVE remove_paths(_, _)
remove_paths(list, sel) ==
    IF sel = <<>> THEN list
    ELSE remove_paths(IF Head(sel) \in Range(list) THEN ListRemove(list, Head(sel)) ELSE list,
                      Tail(sel))

\* the items of a list whose rows are in rows, in row order
RECURSIVE Pick(_, _, _)
Pick(list, rows, keep) ==
    IF list = <<>> THEN <<>>
    ELSE LET rest == Pick(Tail(list), {r - 1 : r \in rows \ {1}}, keep)
         IN  IF (1 \in rows) = keep THEN <<Head(list)>> \o rest ELSE rest

\* MainWindow.remove_selected; rows are the selected rows of file_list
RemoveSelected(rows) ==
    /\ Clickable(remove_selected_btn)
    /\ rows \subseteq 1..Len(file_list)
    /\ files_to_process' = remove_paths(files_to_process, Pick(file_list, rows, TRUE))
    /\ file_list' = Pick(file_list, rows, FALSE)
    /\ process_btn' = update_ui_state(files_to_process', worker)
    /\ UNCHANGED <<worker, cancel_btn, add_files_btn, add_folder_btn, clear_btn,
                   remove_selected_btn, display, dialog, workers, events>>

\* the user closes the open message box
DismissDialog ==
    /\ dialog # None
    /\ dialog' = None
    /\ UNCHANGED <<queue, worker, buttons, display, workers, events>>

\* ------------------------------------------------------------------- run
\* "Disable UI during processing" leaving the Clear List button enabled
DisableUI_ClearLeftEnabled ==
    [process_btn |-> FALSE, cancel_btn |-> TRUE, add_files_btn |-> FALSE,
     add_folder_btn |-> FALSE, clear_btn |-> TRUE, remove_selected_btn |-> FALSE]

\* "Disable UI during processing" in start_processing
DisableUI ==
    [process_btn |-> FALSE, cancel_btn |-> TRUE, add_files_btn |-> FALSE,
     add_folder_btn |-> FALSE, clear_btn |-> FALSE, remove_selected_btn |-> FALSE]

\* "Re-enable UI" leaving the two add buttons disabled
EnableUI_AddLeftDisabled ==
    [process_btn |-> TRUE, cancel_btn |-> FALSE, add_files_btn |-> FALSE,
     add_folder_btn |-> FALSE, clear_btn |-> TRUE, remove_selected_btn |-> TRUE]

\* "Re-enable UI" in on_all_complete
EnableUI ==
    [process_btn |-> TRUE, cancel_btn |-> FALSE, add_files_btn |-> TRUE,
     add_folder_btn |-> TRUE, clear_btn |-> TRUE, remove_selected_btn |-> TRUE]

SetEnabled(b) ==
    /\ process_btn' = b.process_btn
    /\ cancel_btn' = b.cancel_btn
    /\ add_files_btn' = b.add_files_btn
    /\ add_folder_btn' = b.add_folder_btn
    /\ clear_btn' = b.clear_btn
    /\ remove_selected_btn' = b.remove_selected_btn

FreeIds == {w \in WorkerIds : workers[w].pc = "none"}

\* start_processing with "Disable UI during processing" moved in front of the
\* validation of the script path
StartProcessing_DisablesBeforeValidating(checked, folder_exists, mkdir_ok, script_exists) ==
    /\ Clickable(process_btn)
    /\ IF files_to_process = <<>>
         THEN UNCHANGED vars
       ELSE IF checked /\ ~folder_exists /\ ~mkdir_ok
         THEN /\ dialog' = "Cannot create output folder"
              /\ UNCHANGED <<queue, worker, buttons, display, workers, events>>
       ELSE IF ~script_exists
         THEN /\ dialog' = "Processing script not found"
              /\ SetEnabled(DisableUI)
              /\ UNCHANGED <<queue, worker, display, workers, events>>
       ELSE /\ FreeIds # {}
            /\ LET w == CHOOSE id \in FreeIds : \A other \in FreeIds : id <= other
                   output_folder == IF checked THEN OutDir ELSE None
               IN  /\ worker' = w
                   /\ workers' = [workers EXCEPT
                                    ![w] = ProcessingWorker(files_to_process, output_folder)]
            /\ log_output' = 0
            /\ progress_bar' = [value |-> 0, maximum |-> Len(files_to_process)]
            /\ SetEnabled(DisableUI)
            /\ UNCHANGED <<queue, dialog, events>>

\* MainWindow.start_processing.  checked is what use_custom_output.isChecked()
\* answers; folder_exists, mkdir_ok and script_exists are what the file system
\* answers to output_folder.exists(), output_folder.mkdir() and
\* script_path.exists().
StartProcessing(checked, folder_exists, mkdir_ok, script_exists) ==
    /\ Clickable(process_btn)
    /\ IF files_to_process = <<>>
         THEN UNCHANGED vars
       ELSE IF checked /\ ~folder_exists /\ ~mkdir_ok
         THEN /\ dialog' = "Cannot create output folder"
              /\ UNCHANGED <<queue, worker, buttons, display, workers, events>>
       ELSE IF ~script_exists
         THEN /\ dialog' = "Processing script not found"
              /\ UNCHANGED <<queue, worker, buttons, display, workers, events>>
       ELSE /\ FreeIds # {}
            /\ LET w == CHOOSE id \in FreeIds : \A other \in FreeIds : id <= other
                   output_folder == IF checked THEN OutDir ELSE None
               IN  /\ worker' = w
                   /\ workers' = [workers EXCEPT
                                    ![w] = ProcessingWorker(files_to_process, output_folder)]
            /\ log_output' = 0
            /\ progress_bar' = [value |-> 0, maximum |-> Len(files_to_process)]
            /\ SetEnabled(DisableUI)
            /\ UNCHANGED <<queue, dialog, events>>

\* the body of cancel_processing: what it makes of the worker objects and of
\* the enabled flag of cancel_btn, given what self.worker refers to
cancel_processing(wk, ws, btn) ==
    IF wk # Null
      THEN [workers |-> [ws EXCEPT ![wk]._cancelled = TRUE], cancel_btn |-> FALSE]
      ELSE [workers |-> ws, cancel_btn |-> btn]

\* MainWindow.cancel_processing, which calls ProcessingWorker.cancel
CancelProcessing ==
    /\ Clickable(cancel_btn)
    /\ LET after == cancel_processing(worker, workers, cancel_btn)
       IN  /\ workers' = after.workers
           /\ cancel_btn' = after.cancel_btn
    /\ UNCHANGED <<queue, worker, process_btn, add_files_btn, add_folder_btn, clear_btn,
                   remove_selected_btn, display, dialog, events>>

\* ----------------------------------------------------- ProcessingWorker.run
\* signal.emit from the worker thread: the signals are queued for the UI thread
Queued(w, msgs) == [j \in 1..Len(msgs) |-> [sender |-> w, msg |-> msgs[j]]]

\* the output path computed without looking at the output folder
OutputPath_BesideInput(input_file, output_folder) ==
    [parent |-> input_file.parent,
     stem   |-> Append(input_file.stem, "_processed"),
     suffix |-> ".mp3"]

\* the output path run() computes for an input file
OutputPath(input_file, output_folder) ==
    [parent |-> IF output_folder # None THEN output_folder ELSE input_file.parent,
     stem   |-> Append(input_file.stem, "_processed"),
     suffix |-> ".mp3"]

\* the loop walking the list from its end
InputFile_Reversed(me) == me.files[Len(me.files) - me.i]

\* for i, input_file in enumerate(self.files): the file of the current iteration
InputFile(me) == me.files[me.i + 1]

\* the loop header breaking on the cancel flag without the log line
StepLoop_SilentBreak(me) ==
    LET total == Len(me.files)
    IN  IF me.i >= total
          THEN [next |-> [me EXCEPT !.pc = "after"], msgs |-> <<>>]
        ELSE IF me._cancelled
          THEN [next |-> [me EXCEPT !.pc = "after"], msgs |-> <<>>]
        ELSE [next |-> [me EXCEPT !.pc = "call"],
              msgs |-> << Progress(me.i, total, Name(InputFile(me))),
                          LogMessage("rule", "", NoPath),
                          LogMessage("processing", "Processing: ", Name(InputFile(me))),
                          LogMessage("output", "Output: ",
                                     OutputPath(InputFile(me), me.output_folder)),
                          LogMessage("rule", "", NoPath) >>]

\* the loop header with "continue" where run() has "break"
StepLoop_Continue(me) ==
    LET total == Len(me.files)
    IN  IF me.i >= total
          THEN [next |-> [me EXCEPT !.pc = "after"], msgs |-> <<>>]
        ELSE IF me._cancelled
          THEN [next |-> [me EXCEPT !.i = @ + 1],
                msgs |-> <<LogMessage("cancelled", "Processing cancelled by user", NoPath)>>]
        ELSE [next |-> [me EXCEPT !.pc = "call"],
              msgs |-> << Progress(me.i, total, Name(InputFile(me))),
                          LogMessage("rule", "", NoPath),
                          LogMessage("processing", "Processing: ", Name(InputFile(me))),
                          LogMessage("output", "Output: ",
                                     OutputPath(InputFile(me), me.output_folder)),
                          LogMessage("rule", "", NoPath) >>]

\* The loop header of run(): take the next file, look at the cancel flag,
\* announce the file.  next is the worker afterwards, msgs what it emits.
StepLoop(me) ==
    LET total == Len(me.files)
    IN  IF me.i >= total
          THEN [next |-> [me EXCEPT !.pc = "after"], msgs |-> <<>>]
        ELSE IF me._cancelled
          THEN [next |-> [me EXCEPT !.pc = "after"],
                msgs |-> <<LogMessage("cancelled", "Processing cancelled by user", NoPath)>>]
        ELSE [next |-> [me EXCEPT !.pc = "call"],
              msgs |-> << Progress(me.i, total, Name(InputFile(me))),
                          LogMessage("rule", "", NoPath),
                          LogMessage("processing", "Processing: ", Name(InputFile(me))),
                          LogMessage("output", "Output: ",
                                     OutputPath(InputFile(me), me.output_folder)),
                          LogMessage("rule", "", NoPath) >>]

\* subprocess.run is entered: the script runs with the input and output paths
StepCall(me) ==
    [next |-> [me EXCEPT
                 !.pc = "running",
                 !.invoked = Append(@, <<InputFile(me),
                                         OutputPath(InputFile(me), me.output_folder)>>)],
     msgs |-> <<>>]

\* how subprocess.run(..., timeout=600) ends for an outcome of the script
subprocess_run(outcome) ==
    IF outcome.fault # "" THEN "Exception"
    ELSE IF outcome.elapsed > TIMEOUT THEN "TimeoutExpired"
    ELSE "CompletedProcess"

\* the try/except of run() without the "Unknown error" fallback
Classify_NoFallback(outcome) ==
    LET ended == subprocess_run(outcome)
        error_msg == outcome.stderr
    IN  IF ended = "CompletedProcess"
          THEN IF outcome.returncode = 0
                 THEN [ok |-> TRUE, message |-> "Success",
                       log |-> LogMessage("stdout", outcome.stdout, NoPath)]
                 ELSE [ok |-> FALSE, message |-> error_msg,
                       log |-> LogMessage("error", error_msg, NoPath)]
        ELSE IF ended = "TimeoutExpired"
          THEN [ok |-> FALSE, message |-> "Timeout (>10 min)",
                log |-> LogMessage("error", "Processing timeout exceeded", NoPath)]
        ELSE [ok |-> FALSE, message |-> outcome.fault,
              log |-> LogMessage("error", outcome.fault, NoPath)]

\* the try/except of run(): [ok, message, log] for an outcome
Classify(outcome) ==
    LET ended == subprocess_run(outcome)
        error_msg == IF outcome.stderr # "" THEN outcome.stderr ELSE "Unknown error"
    IN  IF ended = "CompletedProcess"
          THEN IF outcome.returncode = 0
                 THEN [ok |-> TRUE, message |-> "Success",
                       log |-> LogMessage("stdout", outcome.stdout, NoPath)]
                 ELSE [ok |-> FALSE, message |-> error_msg,
                       log |-> LogMessage("error", error_msg, NoPath)]
        ELSE IF ended = "TimeoutExpired"
          THEN [ok |-> FALSE, message |-> "Timeout (>10 min)",
                log |-> LogMessage("error", "Processing timeout exceeded", NoPath)]
        ELSE [ok |-> FALSE, message |-> outcome.fault,
              log |-> LogMessage("error", outcome.fault, NoPath)]

\* run() without "except Exception": a fault of the invocation ends the loop
StepReturn_FaultEndsLoop(me, outcome) ==
    LET c == Classify(outcome)
    IN  IF subprocess_run(outcome) = "Exception"
          THEN [next |-> [me EXCEPT !.pc = "after", !.results = Append(@, outcome)],
                msgs |-> <<>>]
          ELSE [next |-> [me EXCEPT
                            !.pc = "loop",
                            !.i = @ + 1,
                            !.successful = IF c.ok THEN @ + 1 ELSE @,
                            !.failed = IF c.ok THEN @ ELSE @ + 1,
                            !.results = Append(@, outcome)],
                msgs |-> <<FileComplete(Name(InputFile(me)), c.ok, c.message), c.log>>]

\* run() looking at the cancel flag again right after subprocess.run and
\* leaving the loop without reporting the item
StepReturn_DropsWhenCancelled(me, outcome) ==
    LET c == Classify(outcome)
    IN  IF me._cancelled
          THEN [next |-> [me EXCEPT !.pc = "after", !.results = Append(@, outcome)],
                msgs |-> <<LogMessage("cancelled", "Processing cancelled by user", NoPath)>>]
          ELSE [next |-> [me EXCEPT
                            !.pc = "loop",
                            !.i = @ + 1,
                            !.successful = IF c.ok THEN @ + 1 ELSE @,
                            !.failed = IF c.ok THEN @ ELSE @ + 1,
                            !.results = Append(@, outcome)],
                msgs |-> <<FileComplete(Name(InputFile(me)), c.ok, c.message), c.log>>]

\* the branches of the try/except writing their log line before file_complete
StepReturn_LogFirst(me, outcome) ==
    LET c == Classify(outcome)
    IN  [next |-> [me EXCEPT
                     !.pc = "loop",
                     !.i = @ + 1,
                     !.successful = IF c.ok THEN @ + 1 ELSE @,
                     !.failed = IF c.ok THEN @ ELSE @ + 1,
                     !.results = Append(@, outcome)],
         msgs |-> <<c.log, FileComplete(Name(InputFile(me)), c.ok, c.message)>>]

\* subprocess.run returns or raises: the outcome is counted and reported, and
\* the loop goes on to its next iteration
StepReturn(me, outcome) ==
    LET c == Classify(outcome)
    IN  [next |-> [me EXCEPT
                     !.pc = "loop",
                     !.i = @ + 1,
                     !.successful = IF c.ok THEN @ + 1 ELSE @,
                     !.failed = IF c.ok THEN @ ELSE @ + 1,
                     !.results = Append(@, outcome)],
         msgs |-> <<FileComplete(Name(InputFile(me)), c.ok, c.message), c.log>>]

\* the two emits after the loop in the other order
StepFinish_SummaryFirst(me) ==
    [next |-> [me EXCEPT !.pc = "done"],
     msgs |-> <<AllComplete(me.successful, me.failed),
                Progress(Len(me.files), Len(me.files), NoPath)>>]

\* the two emits after the loop made only when some item was attempted
StepFinish_SilentWhenEmpty(me) ==
    [next |-> [me EXCEPT !.pc = "done"],
     msgs |-> IF me.successful + me.failed > 0
                THEN <<Progress(Len(me.files), Len(me.files), NoPath),
                       AllComplete(me.successful, me.failed)>>
                ELSE <<>>]

\* the two emits after the loop; run() returns
StepFinish(me) ==
    [next |-> [me EXCEPT !.pc = "done"],
     msgs |-> <<Progress(Len(me.files), Len(me.files), NoPath),
                AllComplete(me.successful, me.failed)>>]

\* a step of a worker that was handed files_to_process itself instead of a
\* copy: it sees the list as the UI thread has left it
WorkerStep_SharedList(w, step) ==
    /\ workers' = [workers EXCEPT ![w] = [step.next EXCEPT !.emitted = @ \o step.msgs,
                                                           !.files = files_to_process]]
    /\ events' = events \o Queued(w, step.msgs)
    /\ UNCHANGED <<queue, worker, buttons, display, dialog>>

\* a step of the thread of worker w
WorkerStep(w, step) ==
    /\ workers' = [workers EXCEPT ![w] = [step.next EXCEPT !.emitted = @ \o step.msgs]]
    /\ events' = events \o Queued(w, step.msgs)
    /\ UNCHANGED <<queue, worker, buttons, display, dialog>>

WorkerLoop(w) == workers[w].pc = "loop" /\ WorkerStep(w, StepLoop(workers[w]))

WorkerCall(w) == workers[w].pc = "call" /\ WorkerStep(w, StepCall(workers[w]))

WorkerReturn(w, outcome) ==
    workers[w].pc = "running" /\ WorkerStep(w, StepReturn(workers[w], outcome))

WorkerFinish(w) == workers[w].pc = "after" /\ WorkerStep(w, StepFinish(workers[w]))

\* ------------------------------------------------- slots of the UI thread
Delivered(sig) == events # <<>> /\ Head(events).msg.sig = sig

on_progress ==
    /\ Delivered("progress")
    /\ progress_bar' = [progress_bar EXCEPT !.value = Head(events).msg.current]
    /\ events' = Tail(events)
    /\ UNCHANGED <<queue, worker, buttons, log_output, dialog, workers>>

on_file_complete ==
    /\ Delivered("file_complete")
    /\ log_output' = log_output + 1
    /\ events' = Tail(events)
    /\ UNCHANGED <<queue, worker, buttons, progress_bar, dialog, workers>>

on_log_message ==
    /\ Delivered("log_message")
    /\ log_output' = log_output + 1
    /\ events' = Tail(events)
    /\ UNCHANGED <<queue, worker, buttons, progress_bar, dialog, workers>>

\* MainWindow.on_all_complete.  The worker that sent the signal has finished and
\* nothing refers to it any more.
on_all_complete ==
    /\ Delivered("all_complete")
    /\ LET successful == Head(events).msg.successful
           failed == Head(events).msg.failed
       IN  dialog' = IF failed = 0 /\ successful > 0 THEN "Complete"
                     ELSE IF failed > 0 THEN "Complete with Errors"
                     ELSE dialog
    /\ worker' = Null
    /\ SetEnabled(EnableUI)
    /\ log_output' = log_output + 5
    /\ workers' = [workers EXCEPT ![Head(events).sender] = NoWorker]
    /\ events' = Tail(events)
    /\ UNCHANGED <<queue, progress_bar>>

\* ---------------------------------------------------------- specification
Next ==
    \/ \E files \in FileLists : BrowseFiles(files)
    \/ \E files \in FileLists : BrowseFolder(files)
    \/ \E files \in FileLists : DropEvent(files)
    \/ ClearFiles
    \/ \E rows \in SUBSET (1..NumPaths) : RemoveSelected(rows)
    \/ DismissDialog
    \/ \E checked \in BOOLEAN, folder_exists \in BOOLEAN,
          mkdir_ok \in BOOLEAN, script_exists \in BOOLEAN :
          StartProcessing(checked, folder_exists, mkdir_ok, script_exists)
    \/ CancelProcessing
    \/ \E w \in WorkerIds : WorkerLoop(w)
    \/ \E w \in WorkerIds : WorkerCall(w)
    \/ \E w \in WorkerIds, outcome \in Outcomes : WorkerReturn(w, outcome)
    \/ \E w \in WorkerIds : WorkerFinish(w)
    \/ on_progress
    \/ on_file_complete
    \/ on_log_message
    \/ on_all_complete

Spec == Init /\ [][Next]_vars

\* ------------------------------------------------------------ properties
\* A run is active from the creation of its worker until its all_complete
\* has been handled.
Active(w) == workers[w].pc # "none"
ActiveWorkers == {w \in WorkerIds : Active(w)}
RunActive == ActiveWorkers # {}

IsPrefix(s, t) == Len(s) <= Len(t) /\ \A j \in 1..Len(s) : s[j] = t[j]
NoDuplicates(s) == \A j, k \in 1..Len(s) : s[j] = s[k] => j = k
Signals(me, sig) == SelectSeq(me.emitted, LAMBDA m : m.sig = sig)
CancelObserved(me) ==
    \E j \in 1..Len(me.emitted) :
        me.emitted[j].sig = "log_message" /\ me.emitted[j].kind = "cancelled"

\* C1: while a run is active no add operation changes the Job Queue:
\* files_to_process equals the list the run started with.
C1_QueueFrozenForAdds ==
    \A w \in ActiveWorkers : files_to_process = workers[w].files

\* C2: at most one run is active at any time, and while a run is active a
\* start request is rejected: the Process control is disabled, and the one
\* active worker is the one MainWindow.worker refers to.
C2_OneActiveRun ==
    /\ Cardinality(ActiveWorkers) <= 1
    /\ RunActive => ~process_btn /\ worker \in ActiveWorkers
    /\ \A n \in 1..Len(events) : Active(events[n].sender)

\* a file was dropped on the list while the external script was running
C2_Witness ==
    \E w \in ActiveWorkers :
        /\ workers[w].pc = "running"
        /\ Len(files_to_process) > Len(workers[w].files)

\* the input paths of the invocations a worker has made, in order
InvokedInputs(me) == [j \in 1..Len(me.invoked) |-> me.invoked[j][1]]
LastEmitted(me) == me.emitted[Len(me.emitted)]

\* C3: when the cancellation request is observed before the invocation of
\* item k (the loop breaks with i = k-1), successful + failed = k-1, also in
\* the all_complete notification, and items k..N are never passed to the
\* script and get no file_complete notification.
C3_CancelBeforeItemK ==
    \A w \in ActiveWorkers :
        LET me == workers[w]
        IN  CancelObserved(me) =>
              /\ me.successful + me.failed = me.i
              /\ InvokedInputs(me) = SubSeq(me.files, 1, me.i)
              /\ Len(Signals(me, "file_complete")) = me.i
              /\ \A n \in (me.i + 1)..Len(me.files) :
                    /\ me.files[n] \notin Range(InvokedInputs(me))
                    /\ \A j \in 1..Len(me.emitted) :
                          me.emitted[j].sig = "file_complete"
                             => me.emitted[j].filename # Name(me.files[n])
              /\ me.pc = "done" =>
                    /\ LastEmitted(me).sig = "all_complete"
                    /\ LastEmitted(me).successful + LastEmitted(me).failed = me.i

\* a run of two items cancelled before its second item, summary emitted
C3_Witness ==
    \E w \in ActiveWorkers :
        /\ CancelObserved(workers[w])
        /\ workers[w].pc = "done"
        /\ workers[w].i = 1
        /\ Len(workers[w].files) = 2

\* C4: in a run with no cancellation request every item of the snapshot is
\* invoked exactly once, in order, whatever the earlier items ended with, and
\* the final counts satisfy successful + failed = N.
C4_FailuresDoNotAbort ==
    \A w \in ActiveWorkers :
        LET me == workers[w]
        IN  (~me._cancelled /\ me.pc \in {"after", "done"}) =>
              /\ InvokedInputs(me) = me.files
              /\ Len(me.results) = Len(me.files)
              /\ me.successful + me.failed = Len(me.files)
              /\ me.pc = "done" =>
                    /\ LastEmitted(me).sig = "all_complete"
                    /\ LastEmitted(me).successful + LastEmitted(me).failed = Len(me.files)

\* a finished run of two items whose first invocation raised and whose
\* second timed out
C4_Witness ==
    \E w \in ActiveWorkers :
        /\ ~workers[w]._cancelled
        /\ workers[w].pc = "done"
        /\ Len(workers[w].results) = 2
        /\ workers[w].results[1].fault # ""
        /\ workers[w].results[2].elapsed > TIMEOUT

\* C5: a cancel request leaves the invocation in flight alone; the item in
\* flight is still counted and reported by a file_complete notification when
\* its invocation ends; and the next loop check ends the loop without a
\* further invocation.
C5_step(me, after) ==
    /\ (me.pc = "running" /\ ~me._cancelled /\ after._cancelled)
          => after = [me EXCEPT !._cancelled = TRUE]
    /\ (me.pc = "running" /\ me._cancelled /\ after # me)
          => /\ after.pc = "loop"
             /\ after.i = me.i + 1
             /\ after.successful + after.failed = me.successful + me.failed + 1
             /\ Len(after.results) = Len(me.results) + 1
             /\ after.invoked = me.invoked
             /\ Len(after.emitted) > Len(me.emitted)
             /\ after.emitted[Len(me.emitted) + 1].sig = "file_complete"
             /\ after.emitted[Len(me.emitted) + 1].filename = Name(me.files[me.i + 1])
    /\ (me.pc = "loop" /\ me._cancelled /\ after # me)
          => /\ after.pc = "after"
             /\ after.invoked = me.invoked

C5_CancelIsCooperative ==
    [][\A w \in WorkerIds : C5_step(workers[w], workers'[w])]_vars

\* the cancel request has arrived while the first of two items is in flight
C5_Witness ==
    \E w \in ActiveWorkers :
        /\ workers[w].pc = "running"
        /\ workers[w]._cancelled
        /\ workers[w].i = 0
        /\ Len(workers[w].files) = 2

\* C6: no two invocations of the script are in flight at once, the script is
\* run on the snapshot's items in snapshot order, and the invocation for an
\* item begins only when every earlier invocation has ended and its outcome
\* has been counted and reported.
C6_SequentialInOrder ==
    /\ Cardinality({w \in WorkerIds : workers[w].pc = "running"}) <= 1
    /\ \A w \in ActiveWorkers :
          LET me == workers[w]
              inflight == IF me.pc = "running" THEN 1 ELSE 0
          IN  /\ InvokedInputs(me) = SubSeq(me.files, 1, Len(me.invoked))
              /\ Len(me.invoked) = Len(me.results) + inflight
              /\ me.successful + me.failed = Len(me.results)
              /\ Len(Signals(me, "file_complete")) = Len(me.results)

\* the second item's invocation is in flight
C6_Witness ==
    \E w \in ActiveWorkers :
        /\ workers[w].pc = "running"
        /\ Len(workers[w].invoked) = 2
        /\ Len(workers[w].results) = 1

\* C7: a worker that has left its loop and returned has emitted, as its last
\* two notifications, progress(total, total) and then all_complete with the
\* counts of the items attempted, each exactly once; a worker that has not
\* returned has emitted neither.
C7_FinalNotifications ==
    \A w \in ActiveWorkers :
        LET me == workers[w]
            total == Len(me.files)
            n == Len(me.emitted)
            finals == {j \in 1..n : /\ me.emitted[j].sig = "progress"
                                    /\ me.emitted[j].current = total}
            summaries == {j \in 1..n : me.emitted[j].sig = "all_complete"}
            reported(ok) == {j \in 1..n : /\ me.emitted[j].sig = "file_complete"
                                          /\ me.emitted[j].success = ok}
        IN  IF me.pc = "done"
              THEN /\ finals = {n - 1}
                   /\ summaries = {n}
                   /\ me.emitted[n - 1].total = total
                   /\ me.emitted[n].successful = Cardinality(reported(TRUE))
                   /\ me.emitted[n].failed = Cardinality(reported(FALSE))
                   /\ me.emitted[n].successful + me.emitted[n].failed = Len(me.invoked)
              ELSE finals = {} /\ summaries = {}

\* a run of two items has returned with one success and one failure
C7_Witness ==
    \E w \in ActiveWorkers :
        /\ workers[w].pc = "done"
        /\ workers[w].successful = 1
        /\ workers[w].failed = 1

\* C8: the outcome the claim gives to what an invocation ended with
C8_success(o) == o.fault = "" /\ o.elapsed <= TIMEOUT /\ o.returncode = 0
C8_message(o) ==
    IF o.fault # "" THEN o.fault
    ELSE IF o.elapsed > TIMEOUT THEN "Timeout (>10 min)"
    ELSE IF o.returncode = 0 THEN "Success"
    ELSE IF o.stderr = "" THEN "Unknown error"
    ELSE o.stderr

\* C8: every attempted item has exactly one file_complete notification, whose
\* success flag and message are those of its outcome (exit 0: success; other
\* exit: the error text or "Unknown error"; over 600 seconds: timeout; a
\* raised exception: its description), and it incremented exactly one counter.
C8_OutcomeClassification ==
    \A w \in ActiveWorkers :
        LET me == workers[w]
            fcs == Signals(me, "file_complete")
            items == 1..Len(me.results)
        IN  /\ Len(fcs) = Len(me.results)
            /\ \A j \in items :
                  /\ fcs[j].filename = Name(me.files[j])
                  /\ fcs[j].success = C8_success(me.results[j])
                  /\ fcs[j].message = C8_message(me.results[j])
            /\ me.successful = Cardinality({j \in items : C8_success(me.results[j])})
            /\ me.failed = Cardinality({j \in items : ~C8_success(me.results[j])})

\* a non-zero exit without error text followed by a timeout
C8_Witness ==
    \E w \in ActiveWorkers :
        /\ Len(workers[w].results) = 2
        /\ workers[w].results[1].returncode = 1
        /\ workers[w].results[1].stderr = ""
        /\ workers[w].results[2].elapsed > TIMEOUT

\* a step that changes the queue without shortening it appends paths that
\* were not in it
C9_step ==
    /\ NoDuplicates(files_to_process')
    /\ (files_to_process' # files_to_process /\ Len(files_to_process') >= Len(files_to_process))
          => /\ IsPrefix(files_to_process, files_to_process')
             /\ \A j \in (Len(files_to_process) + 1)..Len(files_to_process') :
                   files_to_process'[j] \notin Range(files_to_process)

C10_RemoveClearDisallowed ==
    /\ RunActive =>
          /\ ~clear_btn
          /\ ~remove_selected_btn
          /\ \A w \in ActiveWorkers : IsPrefix(workers[w].files, files_to_process)
    /\ ~RunActive => clear_btn /\ remove_selected_btn

\* a run has ended and its all_complete has been handled
C10_Witness ==
    /\ ~RunActive
    /\ log_output >= 5
    /\ clear_btn
    /\ remove_selected_btn
    /\ files_to_process # <<>>

\* what C11 asks of one step, for one worker before and after it
C11_step(me, after) ==
    /\ (me.pc = "none" /\ after.pc # "none")
          => /\ after.files = files_to_process
             /\ after.invoked = <<>>
    /\ (me.pc # "none" /\ after.pc # "none")
          => /\ after.files = me.files
             /\ IsPrefix(InvokedInputs(after), me.files)
             /\ \A j \in 1..Len(after.emitted) :
                   after.emitted[j].sig = "progress"
                      => after.emitted[j].total = Len(me.files)

\* C11: a worker starts with the Job Queue as it is when the run starts and
\* keeps that list: whatever happens to the Job Queue afterwards, the items it
\* invokes are that list's items in order and its total is that list's length.
C11_RunUsesItsSnapshot ==
    [][\A w \in WorkerIds : C11_step(workers[w], workers'[w])]_vars

\* a run has returned after invoking both items of its snapshot while the Job
\* Queue was changed underneath it
C11_Witness ==
    \E w \in ActiveWorkers :
        /\ workers[w].pc = "done"
        /\ files_to_process # workers[w].files
        /\ InvokedInputs(workers[w]) = workers[w].files

ValidationDialogs == {"Cannot create output folder", "Processing script not found"}

\* C12: a start request that fails validation (the output folder cannot be
\* created, or the script is missing) only opens its error box: no worker is
\* created, nothing is invoked or emitted, and the Job Queue and the controls
\* stay as they are.
C12_ValidationFailurePreventsRun ==
    [][(dialog' \in ValidationDialogs /\ dialog \notin ValidationDialogs)
          => UNCHANGED <<queue, worker, buttons, workers, events>>]_vars

\* the error box of a start request whose output folder could not be created
C12_Witness ==
    /\ dialog = "Cannot create output folder"
    /\ files_to_process # <<>>
    /\ process_btn
    /\ ~RunActive

\* ------------------------------------------------- one run of a worker
\* ProcessingWorker.run on its own: a worker constructed on any list of
\* distinct paths, the empty list included, and started the way
\* start_processing starts it; then the worker thread, the slots its signals
\* are connected to, and the Cancel button.
Snapshots == {s \in SeqsUpTo(Paths, NumPaths) : NoDuplicates(s)}

InitRun ==
    /\ files_to_process \in Snapshots
    /\ file_list = files_to_process
    /\ worker = 1
    /\ process_btn = DisableUI.process_btn
    /\ cancel_btn = DisableUI.cancel_btn
    /\ add_files_btn = DisableUI.add_files_btn
    /\ add_folder_btn = DisableUI.add_folder_btn
    /\ clear_btn = DisableUI.clear_btn
    /\ remove_selected_btn = DisableUI.remove_selected_btn
    /\ progress_bar = [value |-> 0, maximum |-> Len(files_to_process)]
    /\ log_output = 0
    /\ dialog = None
    /\ \E output_folder \in {None, OutDir} :
          workers = [w \in WorkerIds |->
                       IF w = 1 THEN ProcessingWorker(files_to_process, output_folder)
                       ELSE NoWorker]
    /\ events = <<>>

NextRun ==
    \/ CancelProcessing
    \/ \E w \in WorkerIds : WorkerLoop(w)
    \/ \E w \in WorkerIds : WorkerCall(w)
    \/ \E w \in WorkerIds, outcome \in Outcomes : WorkerReturn(w, outcome)
    \/ \E w \in WorkerIds : WorkerFinish(w)
    \/ on_progress
    \/ on_file_complete
    \/ on_log_message
    \/ on_all_complete

SpecRun == InitRun /\ [][NextRun]_vars

\* C13: a worker run on a list of 0 items never calls the script and emits
\* nothing but the final progress(0, 0) followed by all_complete(0, 0).
C13_EmptyBatch ==
    \A w \in ActiveWorkers :
        LET me == workers[w]
        IN  Len(me.files) = 0 =>
              /\ me.invoked = <<>>
              /\ me.results = <<>>
              /\ me.pc \in {"loop", "after", "done"}
              /\ me.pc = "done" => me.emitted = <<Progress(0, 0, NoPath), AllComplete(0, 0)>>
              /\ me.pc # "done" => me.emitted = <<>>

\* the worker of an empty list has returned
C13_Witness ==
    \E w \in ActiveWorkers :
        /\ Len(workers[w].files) = 0
        /\ workers[w].pc = "done"
        /\ Len(workers[w].emitted) = 2

\* C14: the output path handed to the script is never the input path of an
\* item of the run's snapshot.
C14_OutputNeverAQueuedInput ==
    \A w \in ActiveWorkers :
        \A j \in 1..Len(workers[w].invoked) :
            workers[w].invoked[j][2] \notin Range(workers[w].files)

\* C15: the script is run with two arguments, the input path and then the
\* output path <input stem>_processed.mp3, in the output folder the run was
\* configured with or, without one, in the input file's own directory; the
\* same output path is announced in the log before the invocation.
C15_OutputPathAndArguments ==
    \A w \in ActiveWorkers :
        LET me == workers[w]
            outputs == Signals(me, "log_message")
            announced == SelectSeq(outputs, LAMBDA m : m.kind = "output")
        IN  \A j \in 1..Len(me.invoked) :
               LET input == me.files[j]
                   directory == IF me.output_folder = None THEN input.parent
                                ELSE me.output_folder
               IN  /\ Len(me.invoked[j]) = 2
                   /\ me.invoked[j][1] = input
                   /\ me.invoked[j][2].parent = directory
                   /\ me.invoked[j][2].stem = input.stem \o <<"_processed">>
                   /\ me.invoked[j][2].suffix = ".mp3"
                   /\ announced[j].path = me.invoked[j][2]

\* both items of a run configured with an output folder have been invoked
C15_Witness ==
    \E w \in ActiveWorkers :
        /\ workers[w].output_folder = OutDir
        /\ Len(workers[w].invoked) = 2
        /\ workers[w].invoked[2][2].parent = OutDir

\* the paths of s that are in the set keep, in the order of s
Kept(s, keep) == SelectSeq(s, LAMBDA p : p \in keep)

\* what C16 asks of one step
C16_step ==
    /\ file_list' = files_to_process'
    /\ \A p \in Paths \ Range(files_to_process') :
          remove_paths(files_to_process', <<p>>) = files_to_process'
    /\ Len(files_to_process') < Len(files_to_process)
          => files_to_process' = Kept(files_to_process, Range(files_to_process'))

WorkerThread ==
    \/ \E w \in WorkerIds : WorkerLoop(w)
    \/ \E w \in WorkerIds : WorkerCall(w)
    \/ \E w \in WorkerIds, outcome \in Outcomes : WorkerReturn(w, outcome)
    \/ \E w \in WorkerIds : WorkerFinish(w)

\* the event loop delivers the signal at the head of the queue to its slot
EventLoop == on_progress \/ on_file_complete \/ on_log_message \/ on_all_complete

Fairness == WF_vars(WorkerThread) /\ WF_vars(EventLoop)

FairSpec == Spec /\ Fairness

\* no worker, Cancel disabled, every other control enabled
IdleUI ==
    /\ worker = Null
    /\ ~RunActive
    /\ events = <<>>
    /\ process_btn
    /\ add_files_btn
    /\ add_folder_btn
    /\ clear_btn
    /\ remove_selected_btn
    /\ ~cancel_btn

\* C17: every started run ends: its all_complete is emitted and handled, after
\* which no worker is active, Cancel is disabled and the add, remove, clear
\* and process controls are enabled again.
C17_RunEndsAndUIReturnsToIdle == RunActive ~> IdleUI

\* the UI is idle again after a run of two items that both succeeded
C17_Witness ==
    /\ IdleUI
    /\ log_output >= 5
    /\ progress_bar.maximum = 2
    /\ progress_bar.value = 2
    /\ dialog = "Complete"

\* the positions in a worker's emitted signals of those that pass a test
Positions(me, Test(_)) ==
    SelectSeq([j \in 1..Len(me.emitted) |-> j], LAMBDA j : Test(me.emitted[j]))

IsCancelLog(m) == m.sig = "log_message" /\ m.kind = "cancelled"

\* C18: the cancellation log line is emitted at most once, only by a worker
\* that was asked to cancel, and by every worker that left its loop early;
\* it is the last thing emitted before the final progress and all_complete,
\* and the items left are counted neither as successful nor as failed.
C18_CancelledRunIsReported ==
    \A w \in ActiveWorkers :
        LET me == workers[w]
            n == Len(me.emitted)
            cancels == Positions(me, IsCancelLog)
            early == me.pc \in {"after", "done"} /\ me.i < Len(me.files)
        IN  /\ Len(cancels) <= 1
            /\ ~me._cancelled => cancels = <<>>
            /\ early <=> cancels # <<>>
            /\ early =>
                  /\ me.successful + me.failed = me.i
                  /\ me.pc = "after" => cancels[1] = n
                  /\ me.pc = "done" =>
                        /\ cancels[1] = n - 2
                        /\ me.emitted[n - 1].sig = "progress"
                        /\ me.emitted[n].sig = "all_complete"
                        /\ me.emitted[n].successful + me.emitted[n].failed = me.i

\* a run cancelled before its first item has returned
C18_Witness ==
    \E w \in ActiveWorkers :
        /\ workers[w].pc = "done"
        /\ workers[w].i = 0
        /\ Len(workers[w].emitted) = 3

IsItemProgress(m) == m.sig = "progress" /\ m.current < m.total
IsFileComplete(m) == m.sig = "file_complete"
IsOutcomeLog(m) == m.sig = "log_message" /\ m.kind \in {"stdout", "error"}

\* C19: for every attempted item, progress(i, N, name) is emitted before the
\* script is invoked, file_complete after the invocation has ended and right
\* before the log line with the captured output or error text, and all of
\* them before the progress of the next item.
C19_PerItemOrder ==
    \A w \in ActiveWorkers :
        LET me == workers[w]
            progs == Positions(me, IsItemProgress)
            fcs == Positions(me, IsFileComplete)
            outs == Positions(me, IsOutcomeLog)
        IN  /\ Len(progs) = Len(me.invoked) + (IF me.pc = "call" THEN 1 ELSE 0)
            /\ Len(fcs) = Len(me.results)
            /\ Len(outs) = Len(me.results)
            /\ \A j \in 1..Len(progs) :
                  /\ me.emitted[progs[j]].current = j - 1
                  /\ me.emitted[progs[j]].total = Len(me.files)
                  /\ me.emitted[progs[j]].message = Name(me.files[j])
            /\ \A j \in 1..Len(fcs) :
                  /\ me.emitted[fcs[j]].filename = Name(me.files[j])
                  /\ progs[j] < fcs[j]
                  /\ outs[j] = fcs[j] + 1
                  /\ j < Len(progs) => outs[j] < progs[j + 1]

\* the second item has been announced after the first was reported
C19_Witness ==
    \E w \in ActiveWorkers :
        /\ workers[w].pc = "call"
        /\ workers[w].i = 1
        /\ Len(workers[w].results) = 1

\* C20: the Process control is enabled only when the Job Queue is not empty
\* and no run is active, and the Job Queue is not empty while a run is active
\* (so on_all_complete never enables the control on an empty queue).
C20_ProcessEnabledOnlyWhenRunnable ==
    /\ process_btn => (files_to_process # <<>> /\ ~RunActive /\ worker = Null)
    /\ RunActive => files_to_process # <<>>

\* the queue was cleared after a run: the Process control is disabled again
C20_Witness ==
    /\ ~RunActive
    /\ log_output >= 5
    /\ files_to_process = <<>>
    /\ ~process_btn

\* what C21 says of one step of worker object w
C21_step(w) ==
    /\ (Active(w) /\ workers[w]._cancelled /\ workers'[w].pc # "none")
          => workers'[w]._cancelled
    /\ (~Active(w) /\ workers'[w].pc # "none")
          => (~workers'[w]._cancelled /\ workers'[w].i = 0)
    /\ (~workers[w]._cancelled /\ workers'[w]._cancelled)
          => (worker = w /\ Active(w) /\ cancel_btn /\ ~cancel_btn')

\* what C21 says of one state
C21_state ==
    /\ worker = Null =>
          cancel_processing(worker, workers, cancel_btn)
              = [workers |-> workers, cancel_btn |-> cancel_btn]
    /\ \A w \in WorkerIds :
          /\ ~Active(w) => ~workers[w]._cancelled
          /\ (workers[w].pc \in {"after", "done"} /\ ~workers[w]._cancelled)
                => workers[w].i = Len(workers[w].files)

\* C21: a cancellation request is scoped to its run.  A worker's cancel flag,
\* once set, stays set until the worker is dropped; it is set only by a cancel
\* request on the worker self.worker refers to; cancel_processing with
\* self.worker unset changes nothing; every worker starts with the flag
\* cleared, and a worker whose flag is clear at the end of its loop has
\* attempted all of its items.
C21_CancelScopedToItsRun ==
    [][C21_state /\ C21_state' /\ \A w \in WorkerIds : C21_step(w)]_vars

\* a run of two items cancelled during its first: the flag is still set when
\* the thread has finished, and the second item was never attempted
C21_Witness ==
    \E w \in ActiveWorkers :
        /\ workers[w]._cancelled
        /\ workers[w].pc = "done"
        /\ Len(workers[w].files) = 2
        /\ Len(workers[w].invoked) = 1
        /\ ~cancel_btn

====
